---------------------------- MODULE Spec2Model ----------------------------
(***************************************************************************)
(* A model of the dataloader pipeline of rrbanda/dataloader:               *)
(*   core/unified_dataloader.py  FilesystemDataSourceAdapter,              *)
(*                               TextProcessor, Neo4jGraphLoader,          *)
(*                               UniversalDataLoader                       *)
(*                               and the loader factories                  *)
(*   core/graph_builders.py      AIGraphBuilder, RuleBasedGraphBuilder     *)
(*   config/config_loader.py     get_config_loader                         *)
(*                                                                         *)
(* Text is a sequence of one-character strings.  A file path and a system  *)
(* id are sequences of fragments (directory prefixes, base names,          *)
(* suffixes); the path heuristics of the code test fragments.              *)
(***************************************************************************)
EXTENDS Integers, Sequences, FiniteSets, TLC

VARIABLES
    \* ---- configuration and data source (fixed by construction) ----
    textEnabled,      \* pipeline.phases.text_processing.enabled
    extractEnabled,   \* pipeline.phases.ai_extraction.enabled
    cleaning,         \* text_processing.cleaning toggles
    fs,               \* backing store: system id -> (path -> file)
    \* ---- UniversalDataLoader: the call in progress ----
    mode,             \* "idle" | "single" | "batch"
    phase,            \* position inside load_system_data
    cur,              \* system id load_system_data was called with
    raw,              \* raw_files of the call in progress
    processed,        \* processed_data of the call in progress
    handed,           \* what create_knowledge_graph last received
    kg,               \* outcome of create_knowledge_graph in this call
    result,           \* outcome of the last load_system_data
    listing,          \* available_systems of load_all_systems
    idx,              \* loop position of load_all_systems
    allSystems,       \* all_systems accumulated by load_all_systems
    allEvents,        \* all_events accumulated by load_all_systems
    batchResult,      \* outcome of the last load_all_systems
    log,              \* phases executed since the top-level call began
    graph,            \* graph store as written by the graph builder
    graphAtCall,      \* graph when the current load_system_data began
    \* ---- graph builders called directly ----
    build,            \* the last create_knowledge_graph call and its result
    inst,             \* the graph builder instance: construction and close()
    \* ---- Neo4jGraphLoader and its store ----
    neo4jConfig,      \* the neo4j_config the loader was constructed with
    driver,           \* TRUE iff self.driver is set
    constraints,      \* TRUE iff __init__ created the uniqueness constraints
    clearOnStartup,   \* management.clear_on_startup
    store,            \* node and relationship counts of the sink's database
    last,             \* input of the last load_systems_and_events
    sink,             \* bookkeeping of the last load_systems_and_events
    clears,           \* how often this loader has cleared the database
    lost,             \* TRUE iff the last call removed what an earlier one wrote
    \* ---- TextProcessor called directly ----
    chunking,         \* text_processing.chunking and the splitter it builds
    call,             \* the last TextProcessor call: its input and its answer
    \* ---- the loader factory and the global config loader ----
    environ,          \* the ENVIRONMENT variable of the process
    configLoader,     \* the module global _config_loader
    loaders           \* the UniversalDataLoader objects constructed so far

pipeVars == <<textEnabled, extractEnabled, cleaning, fs, mode, phase, cur, raw,
              processed, handed, kg, result, listing, idx, allSystems,
              allEvents, batchResult, log, graph, graphAtCall>>
buildVars == <<build, inst>>
sinkVars == <<neo4jConfig, driver, constraints, clearOnStartup, store, last, sink,
              clears, lost>>
textVars == <<chunking, call>>
envVars == <<environ, configLoader, loaders>>
vars == <<pipeVars, buildVars, sinkVars, textVars, envVars>>

-----------------------------------------------------------------------------
(* Sequences and text                                                      *)

Range(s) == {s[i] : i \in 1..Len(s)}

\* str.startswith
StartsWith(s, p) == Len(s) >= Len(p) /\ SubSeq(s, 1, Len(p)) = p

\* str.endswith
EndsWith(s, p) ==
    Len(s) >= Len(p) /\ SubSeq(s, Len(s) - Len(p) + 1, Len(s)) = p

\* `p in s` for strings
Contains(s, p) ==
    \E i \in 1..(Len(s) - Len(p) + 1) : SubSeq(s, i, i + Len(p) - 1) = p

\* characters matched by \s and removed by str.strip()
Whitespace == {" ", "\n", "\t"}

RECURSIVE LStrip(_)
LStrip(s) ==
    IF s # <<>> /\ Head(s) \in Whitespace THEN LStrip(Tail(s)) ELSE s

RECURSIVE RStrip(_)
RStrip(s) ==
    IF s # <<>> /\ s[Len(s)] \in Whitespace
    THEN RStrip(SubSeq(s, 1, Len(s) - 1)) ELSE s

\* str.strip()
Strip(s) == RStrip(LStrip(s))

\* str.split('\n')
RECURSIVE SplitLines(_)
SplitLines(s) ==
    IF \E i \in 1..Len(s) : s[i] = "\n"
    THEN LET i == CHOOSE k \in 1..Len(s) :
                     s[k] = "\n" /\ \A j \in 1..(k - 1) : s[j] # "\n"
         IN <<SubSeq(s, 1, i - 1)>> \o SplitLines(SubSeq(s, i + 1, Len(s)))
    ELSE <<s>>

\* '\n'.join
RECURSIVE JoinLines(_)
JoinLines(ls) ==
    IF ls = <<>> THEN <<>>
    ELSE IF Len(ls) = 1 THEN ls[1]
    ELSE ls[1] \o <<"\n">> \o JoinLines(Tail(ls))

Digits == {"0", "1", "2", "3", "4", "5", "6", "7", "8", "9"}

\* length of the longest run of characters of set cs starting at s[i]
RECURSIVE RunLen(_, _, _)
RunLen(s, i, cs) ==
    IF i <= Len(s) /\ s[i] \in cs THEN 1 + RunLen(s, i + 1, cs) ELSE 0

-----------------------------------------------------------------------------
(* FilesystemDataSourceAdapter                                             *)

\* the marker read_system_files stores for a file it could not read:
\* f"Error: {e}"
ErrorMarker == <<"E", "r", "r", "o", "r", ":", " ", "e">>

ErrorPrefix == <<"E", "r", "r", "o", "r">>

\* read_system_files: the system directory must exist; every matched file
\* gives one entry, its text or the error marker
SystemExists(files, system_id) == system_id \in DOMAIN files

\* ReadSystemFiles with the unreadable files left out of the result
ReadSystemFilesReadable(files, system_id) ==
    [p \in {q \in DOMAIN files[system_id] : files[system_id][q].readable} |->
        files[system_id][p].content]

ReadSystemFiles(files, system_id) ==
    [p \in DOMAIN files[system_id] |->
        IF files[system_id][p].readable
        THEN files[system_id][p].content
        ELSE ErrorMarker]

-----------------------------------------------------------------------------
(* TextProcessor                                                           *)

\* the positions of s that satisfy keep, in order
Positions(s, keep(_)) == SelectSeq([i \in 1..Len(s) |-> i], keep)

\* r'\x1b\[[0-9;]*m' matches at position j; "ESC" stands for the character
\* 0x1b.  A match holds no ESC after its first character, so matches never
\* overlap
AnsiMatchAt(s, j) ==
    /\ j + 1 <= Len(s)
    /\ s[j] = "ESC"
    /\ s[j + 1] = "["
    /\ LET e == j + 2 + RunLen(s, j + 2, Digits \cup {";"})
       IN e <= Len(s) /\ s[e] = "m"

\* the last position of the match that begins at j
AnsiMatchEnd(s, j) == j + 2 + RunLen(s, j + 2, Digits \cup {";"})

\* re.sub(r'\x1b\[[0-9;]*m', '', text)
RemoveAnsi(s) ==
    LET starts == {j \in 1..Len(s) : s[j] = "ESC" /\ AnsiMatchAt(s, j)}
        kept == Positions(s, LAMBDA i :
                    \A j \in starts : i < j \/ i > AnsiMatchEnd(s, j))
    IN [k \in 1..Len(kept) |-> s[kept[k]]]

\* re.sub(r'\s+', ' ', text): each maximal run of whitespace becomes one
\* space
NormalizeWhitespace(s) ==
    LET kept == Positions(s, LAMBDA i :
                    s[i] \notin Whitespace \/ i = 1 \/ s[i - 1] \notin Whitespace)
    IN [k \in 1..Len(kept) |->
            IF s[kept[k]] \in Whitespace THEN " " ELSE s[kept[k]]]

DebugMarker == <<"[", "D", "E", "B", "U", "G", "]">>

\* re.sub(r'^.*\[DEBUG\].*$', '', text, flags=re.MULTILINE): a line holding
\* the marker becomes an empty line
RemoveDebugLines(s) ==
    LET ls == SplitLines(s)
    IN JoinLines([i \in 1..Len(ls) |->
                    IF Contains(ls[i], DebugMarker) THEN <<>> ELSE ls[i]])

CleanStrip(s) == Strip(s)

\* TextProcessor._clean_text; each toggle defaults to True
CleanText(text, cfg) ==
    LET a == IF cfg.remove_ansi_codes THEN RemoveAnsi(text) ELSE text
        b == IF cfg.normalize_whitespace THEN NormalizeWhitespace(a) ELSE a
        c == IF cfg.remove_debug_logs THEN RemoveDebugLines(b) ELSE b
    IN CleanStrip(c)

\* str.lower() on a path fragment
LowerFragment(f) ==
    CASE f = ".LOG" -> ".log"
      [] f = "Packages.txt" -> "packages.txt"
      [] OTHER -> f

LowerPath(path) == [i \in 1..Len(path) |-> LowerFragment(path[i])]

\* path.endswith(suffix), on fragments
PathEndsWith(path, suffix) == path # <<>> /\ path[Len(path)] = suffix

\* needle in fragment: a fragment holds itself and what is listed here
FragmentHolds(f, needle) ==
    \/ f = needle
    \/ <<f, needle>> \in {<<"etc/systemd/system/", "systemd/system">>}

\* `needle in path`, on fragments
PathContains(path, needle) ==
    \E i \in 1..Len(path) : FragmentHolds(path[i], needle)

\* DetectFileType testing the keywords before the suffixes
DetectFileTypeKeywordsFirst(file_path, content) ==
    LET file_path_lower == LowerPath(file_path)
    IN IF PathContains(file_path_lower, "packages.txt") THEN "package_list"
       ELSE IF PathContains(file_path_lower, "redhat-release")
            THEN "release_info"
       ELSE IF PathEndsWith(file_path_lower, ".log") THEN "log_file"
       ELSE IF PathEndsWith(file_path_lower, ".conf") THEN "config_file"
       ELSE IF PathEndsWith(file_path_lower, ".service") THEN "systemd_service"
       ELSE IF PathEndsWith(file_path_lower, ".repo") THEN "repository_config"
       ELSE "unknown"

\* TextProcessor._detect_file_type
DetectFileType(file_path, content) ==
    LET file_path_lower == LowerPath(file_path)
    IN IF PathEndsWith(file_path_lower, ".log") THEN "log_file"
       ELSE IF PathEndsWith(file_path_lower, ".conf") THEN "config_file"
       ELSE IF PathEndsWith(file_path_lower, ".service") THEN "systemd_service"
       ELSE IF PathContains(file_path_lower, "packages.txt") THEN "package_list"
       ELSE IF PathContains(file_path_lower, "redhat-release")
            THEN "release_info"
       ELSE IF PathEndsWith(file_path_lower, ".repo") THEN "repository_config"
       ELSE "unknown"

\* the entries process_files does not skip:
\* `if not content or content.startswith("Error"): continue`
Eligible(raw_files) ==
    {p \in DOMAIN raw_files :
        raw_files[p] # <<>> /\ ~StartsWith(raw_files[p], ErrorPrefix)}

\* position of the first c in s
IndexOf(s, c) ==
    CHOOSE k \in 1..Len(s) : s[k] = c /\ \A j \in 1..(k - 1) : s[j] # c

\* [line.strip() for line in content.split('\n')]
StrippedLines(content) ==
    LET ls == SplitLines(content) IN [i \in 1..Len(ls) |-> Strip(ls[i])]

\* TextProcessor._parse_log_file with no grok pattern configured
\* (self.grok_patterns == {}): no line gives an event
ParseLogFile(content) ==
    [parsed_events |-> <<>>,
     total_events |-> 0,
     total_lines |-> Len(SplitLines(content))]

\* config_pairs[key.strip()] = value.strip(), line by line
RECURSIVE ConfigPairs(_, _)
ConfigPairs(lines, acc) ==
    IF lines = <<>> THEN acc
    ELSE LET l == Head(lines)
             k == IndexOf(l, "=")
             key == Strip(SubSeq(l, 1, k - 1))
             value == Strip(SubSeq(l, k + 1, Len(l)))
         IN ConfigPairs(Tail(lines),
                        [x \in DOMAIN acc \cup {key} |->
                            IF x = key THEN value ELSE acc[x]])

\* TextProcessor._parse_config_file
ParseConfigFile(content) ==
    LET lines == SelectSeq(StrippedLines(content),
                           LAMBDA l : l # <<>> /\ l[1] # "#" /\ "=" \in Range(l))
        config_pairs == ConfigPairs(lines, <<>>)
    IN [config_pairs |-> config_pairs,
        total_settings |-> Cardinality(DOMAIN config_pairs)]

\* TextProcessor._parse_package_list
ParsePackageList(content) ==
    LET packages == SelectSeq(StrippedLines(content), LAMBDA l : l # <<>>)
    IN [packages |-> packages, package_count |-> Len(packages)]

ReleaseWord == <<"r", "e", "l", "e", "a", "s", "e", " ">>

\* re.search(r'release (\d+\.\d+)', content) matching at position i
ReleaseMatchAt(content, i) ==
    LET d == i + Len(ReleaseWord)
        n1 == RunLen(content, d, Digits)
        n2 == RunLen(content, d + n1 + 1, Digits)
    IN /\ i + Len(ReleaseWord) - 1 <= Len(content)
       /\ SubSeq(content, i, i + Len(ReleaseWord) - 1) = ReleaseWord
       /\ n1 >= 1
       /\ d + n1 <= Len(content)
       /\ content[d + n1] = "."
       /\ n2 >= 1

\* group(1) of the leftmost match, <<>> when there is none
ReleaseVersion(content) ==
    LET hits == {i \in 1..Len(content) : ReleaseMatchAt(content, i)}
    IN IF hits = {} THEN <<>>
       ELSE LET i == CHOOSE k \in hits : \A j \in hits : k <= j
                d == i + Len(ReleaseWord)
                n1 == RunLen(content, d, Digits)
                n2 == RunLen(content, d + n1 + 1, Digits)
            IN SubSeq(content, d, d + n1 + n2)

\* re.search(r'\(([^)]+)\)', content) matching at position i
CodenameMatchAt(content, i) ==
    LET n == RunLen(content, i + 1, Range(content) \ {")"})
    IN /\ content[i] = "("
       /\ n >= 1
       /\ i + 1 + n <= Len(content)

\* group(1) of the leftmost match, 'unknown' when there is none
Codename(content) ==
    LET hits == {i \in 1..Len(content) : CodenameMatchAt(content, i)}
    IN IF hits = {} THEN <<"unknown">>
       ELSE LET i == CHOOSE k \in hits : \A j \in hits : k <= j
                n == RunLen(content, i + 1, Range(content) \ {")"})
            IN SubSeq(content, i + 1, i + n)

\* TextProcessor._parse_release_info
ParseReleaseInfo(content) ==
    [full_release |-> Strip(content),
     version |-> IF ReleaseVersion(content) = <<>> THEN <<"unknown">>
                 ELSE ReleaseVersion(content),
     codename |-> Codename(content)]

\* TextProcessor._parse_by_type
ParseByType(file_type, content) ==
    IF file_type = "log_file" THEN ParseLogFile(content)
    ELSE IF file_type = "config_file" THEN ParseConfigFile(content)
    ELSE IF file_type = "package_list" THEN ParsePackageList(content)
    ELSE IF file_type = "release_info" THEN ParseReleaseInfo(content)
    ELSE [raw_content |-> content]

\* chunking_config.get('max_chunk_size', 2000)
DefaultMaxChunkSize == 2000

\* the chunking defaults, without the optional splitter
DefaultChunking ==
    [max_chunk_size |-> DefaultMaxChunkSize, text_splitter |-> "none"]

\* Slices losing what is left over after the last full chunk
SlicesFullOnly(text, chunk_size) ==
    [k \in 1..(Len(text) \div chunk_size) |->
        SubSeq(text, (k - 1) * chunk_size + 1, k * chunk_size)]

\* [text[i:i+chunk_size] for i in range(0, len(text), chunk_size)] for a
\* positive chunk_size
Slices(text, chunk_size) ==
    [k \in 1..((Len(text) + chunk_size - 1) \div chunk_size) |->
        LET i == (k - 1) * chunk_size
        IN SubSeq(text, i + 1,
                  IF i + chunk_size <= Len(text) THEN i + chunk_size
                  ELSE Len(text))]

\* what a call inside the try block of process_files gives: a value, or an
\* exception with its str(e)
Value(v) == [raised |-> FALSE, error |-> <<>>, value |-> v]
Exception(message) == [raised |-> TRUE, error |-> message, value |-> <<>>]

\* the third-party RecursiveCharacterTextSplitter.split_text: it answers
\* with chunks of its own making or raises; chunking.text_splitter tells
\* which ("none" when LANGCHAIN_AVAILABLE is false)
SplitText(text, chunking_config) ==
    IF chunking_config.text_splitter = "raises"
    THEN Exception(<<"split_text failed">>)
    ELSE Value(Slices(text, IF chunking_config.max_chunk_size < 1 THEN 1
                            ELSE chunking_config.max_chunk_size))

\* TextProcessor._chunk_text; range() raises ValueError for a zero step and
\* is empty for a negative one
ChunkText(text, chunking_config) ==
    IF chunking_config.text_splitter # "none" /\ Len(text) > chunking_config.max_chunk_size
    THEN SplitText(text, chunking_config)
    ELSE LET chunk_size == chunking_config.max_chunk_size
         IN IF chunk_size = 0
            THEN Exception(<<"range() arg 3 must not be zero">>)
            ELSE IF chunk_size < 0 THEN Value(<<>>)
            ELSE Value(Slices(text, chunk_size))

\* content[:1000]
RawContentLimit == 1000

\* ErrorRecord keeping the whole content
ErrorRecordWhole(message, content) ==
    [kind |-> "error", error |-> message, raw_content |-> content]

\* the record of the except branch of process_files
ErrorRecord(message, content) ==
    [kind |-> "error",
     error |-> message,
     raw_content |-> SubSeq(content, 1,
                            IF Len(content) < RawContentLimit
                            THEN Len(content) ELSE RawContentLimit)]

\* the record process_files builds for one file: _clean_text,
\* _detect_file_type and _parse_by_type raise nothing on a str, _chunk_text
\* may
ProcessedRecord(file_path, content, cfg, chunking_config) ==
    LET cleaned_content == CleanText(content, cfg)
        file_type == DetectFileType(file_path, cleaned_content)
        parsed_data == ParseByType(file_type, cleaned_content)
        chunks == ChunkText(cleaned_content, chunking_config)
    IN IF chunks.raised
       THEN ErrorRecord(chunks.error, content)
       ELSE [kind |-> "processed",
             file_type |-> file_type,
             cleaned_content |-> cleaned_content,
             parsed_data |-> parsed_data,
             chunks |-> chunks.value,
             original_size |-> Len(content),
             cleaned_size |-> Len(cleaned_content),
             chunk_count |-> Len(chunks.value)]

\* TextProcessor.process_files
ProcessFiles(raw_files, cfg, chunking_config) ==
    [p \in Eligible(raw_files) |->
        ProcessedRecord(p, raw_files[p], cfg, chunking_config)]

\* the text-processing-disabled branch of load_system_data:
\* {path: {'cleaned_content': content} for path, content in raw_files.items()}
PassThrough(raw_files) ==
    [p \in DOMAIN raw_files |->
        [kind |-> "raw", cleaned_content |-> raw_files[p]]]

\* file_data.get('cleaned_content', ''): an error record has no such key
CleanedContentOf(file_data) ==
    IF file_data.kind = "error" THEN <<>> ELSE file_data.cleaned_content

-----------------------------------------------------------------------------
(* Graph builders (core/graph_builders.py)                                 *)

\* the keys of a dict in one fixed iteration order
RECURSIVE KeysInOrder(_)
KeysInOrder(keys) ==
    IF keys = {} THEN <<>>
    ELSE LET k == CHOOSE x \in keys : TRUE
         IN <<k>> \o KeysInOrder(keys \ {k})

ContextHeader(system_id) == <<"SYSTEM ANALYSIS: ">> \o system_id

ContextInstructions(system_id) ==
    <<"KNOWLEDGE GRAPH INSTRUCTIONS; System Context: ">> \o system_id

\* the parts one file adds to the context: nothing when its cleaned content
\* is blank
FileSection(file_path, file_data) ==
    LET content == CleanedContentOf(file_data)
    IN IF Strip(content) # <<>>
       THEN <<"\n", "--- FILE: ">> \o file_path \o <<" ---", "\n">> \o content
       ELSE <<>>

RECURSIVE FileSections(_, _)
FileSections(paths, processed_data) ==
    IF paths = <<>> THEN <<>>
    ELSE LET sec == FileSection(Head(paths), processed_data[Head(paths)])
         IN (IF sec = <<>> THEN <<>> ELSE <<"\n">> \o sec)
            \o FileSections(Tail(paths), processed_data)

\* AIGraphBuilder._build_analysis_context: '\n'.join of the header, the
\* file sections and the instructions
BuildAnalysisContext(system_id, processed_data) ==
    ContextHeader(system_id)
    \o FileSections(KeysInOrder(DOMAIN processed_data), processed_data)
    \o <<"\n">> \o ContextInstructions(system_id)

\* what the extraction service (LLMGraphTransformer) may answer
NoDocument == [nodes |-> {}, relationships |-> {}]
SomeDocument == [nodes |-> {"System", "Service"}, relationships |-> {"RUNS"}]
Responses ==
    { [kind |-> "raises", docs |-> <<>>],
      [kind |-> "answers", docs |-> <<>>],
      [kind |-> "answers", docs |-> <<NoDocument>>],
      [kind |-> "answers", docs |-> <<SomeDocument>>] }

\* `if not graph_documents: return False`
NothingExtracted(graph_documents) == graph_documents = <<>>

\* `if not context_text.strip(): return False`
NoContent(context_text) == Strip(context_text) = <<>>

\* the try block of AIGraphBuilder.create_knowledge_graph: the value it
\* returns, or the exception that leaves it (raised by the extraction call
\* or by the store write); called says whether the extraction service was
\* invoked, written is what was handed to Neo4jGraph.add_graph_documents
AITryBlock(system_id, processed_data, resp, storeOk) ==
    LET context_text == BuildAnalysisContext(system_id, processed_data)
    IN IF NoContent(context_text)
       THEN [kind |-> "return", success |-> FALSE, called |-> FALSE, written |-> <<>>]
       ELSE IF resp.kind = "raises"
       THEN [kind |-> "exception", success |-> FALSE, called |-> TRUE, written |-> <<>>]
       ELSE IF NothingExtracted(resp.docs)
       THEN [kind |-> "return", success |-> FALSE, called |-> TRUE, written |-> <<>>]
       ELSE IF ~storeOk
       THEN [kind |-> "exception", success |-> FALSE, called |-> TRUE, written |-> <<>>]
       ELSE [kind |-> "return", success |-> TRUE, called |-> TRUE, written |-> resp.docs]

\* AIExcept without the handler: the exception leaves the call
AIExceptAbsent(out) == out

\* `except Exception as e: logger.error(...); return False`
AIExcept(out) ==
    IF out.kind = "exception" THEN [out EXCEPT !.kind = "return", !.success = FALSE]
    ELSE out

\* AIGraphBuilder.create_knowledge_graph: its return value, whether it
\* raised to its caller, and the graph documents it wrote
AICreateKnowledgeGraph(system_id, processed_data, resp, storeOk) ==
    LET out == AIExcept(AITryBlock(system_id, processed_data, resp, storeOk))
    IN [success |-> out.kind = "return" /\ out.success,
        raised |-> out.kind = "exception",
        called |-> out.called,
        written |-> out.written]

\* RuleBasedGraphBuilder.create_knowledge_graph
RuleCreateKnowledgeGraph(system_id, processed_data) ==
    [success |-> TRUE, raised |-> FALSE, called |-> FALSE, written |-> <<>>]

\* the nodes and relationships one graph document holds, tagged with the
\* system whose context they were extracted from
Contribution(system_id, doc) ==
    {[source |-> system_id, kind |-> "node", type |-> n] : n \in doc.nodes}
    \cup {[source |-> system_id, kind |-> "relationship", type |-> r] :
            r \in doc.relationships}

\* AddGraphDocuments with each write replacing what the store held
AddGraphDocumentsReplacing(g, system_id, docs) ==
    UNION {Contribution(system_id, docs[i]) : i \in 1..Len(docs)}

\* the graph store after Neo4jGraph.add_graph_documents (merge semantics)
AddGraphDocuments(g, system_id, docs) ==
    g \cup UNION {Contribution(system_id, docs[i]) : i \in 1..Len(docs)}

-----------------------------------------------------------------------------
(* UniversalDataLoader: outcomes and the summary entity                    *)

NoError == [type |-> "none", message |-> <<>>]
NoOutcome == [kind |-> "none", systems |-> <<>>, events |-> <<>>, error |-> NoError]
Returned(systems, events) == [kind |-> "returned", systems |-> systems, events |-> events, error |-> NoError]
Raised(err) == [kind |-> "raised", systems |-> <<>>, events |-> <<>>, error |-> err]

\* raise RuntimeError("Knowledge graph builder required. ...")
BuilderRequiredError ==
    [type |-> "RuntimeError",
     message |-> <<"Knowledge graph builder required. Check LLM configuration and dependencies.">>]

\* raise RuntimeError(f"Knowledge graph creation failed for {system_id}. ...")
GraphCreationFailedError(system_id) ==
    [type |-> "RuntimeError",
     message |-> <<"Knowledge graph creation failed for ">> \o system_id
                 \o <<". Check LLM connection, APOC plugin, and Neo4j setup.">>]

\* len([line for line in content.split('\n') if line.strip()])
NonBlankLineCount(content) ==
    LET ls == SplitLines(content)
    IN Cardinality({i \in 1..Len(ls) : Strip(ls[i]) # <<>>})

DirFragments == {"etc/", "var/log/", "etc/systemd/system/", "var/lib/rpm/"}

\* file_path.split('/')[-1].replace('.service', '')
RECURSIVE ServiceName(_)
ServiceName(file_path) ==
    IF file_path = <<>> THEN <<>>
    ELSE IF \E i \in 1..Len(file_path) : file_path[i] \in DirFragments
         THEN ServiceName(Tail(file_path))
         ELSE SelectSeq(file_path, LAMBDA f : f # ".service")

RECURSIVE VersionFrom(_, _, _)
VersionFrom(paths, processed_data, acc) ==
    IF paths = <<>> THEN acc
    ELSE LET content == CleanedContentOf(processed_data[Head(paths)])
             v == ReleaseVersion(content)
             hit == /\ PathContains(Head(paths), "redhat-release")
                    /\ content # <<>>
                    /\ Contains(content, SubSeq(ReleaseWord, 1, 7))
                    /\ v # <<>>
         IN VersionFrom(Tail(paths), processed_data, IF hit THEN v ELSE acc)

RECURSIVE PackageCountFrom(_, _, _)
PackageCountFrom(paths, processed_data, acc) ==
    IF paths = <<>> THEN acc
    ELSE LET content == CleanedContentOf(processed_data[Head(paths)])
             hit == PathContains(Head(paths), "packages.txt") /\ content # <<>>
         IN PackageCountFrom(Tail(paths), processed_data,
                             IF hit THEN NonBlankLineCount(content) ELSE acc)

RECURSIVE ServicesFrom(_)
ServicesFrom(paths) ==
    IF paths = <<>> THEN <<>>
    ELSE (IF /\ PathContains(Head(paths), "systemd/system")
             /\ PathEndsWith(Head(paths), ".service")
          THEN <<ServiceName(Head(paths))>> ELSE <<>>)
         \o ServicesFrom(Tail(paths))

\* `needle in system_id.lower()`, on fragments
IdHolds(system_id, needle) ==
    \E i \in 1..Len(system_id) : FragmentHolds(LowerFragment(system_id[i]), needle)

EnvironmentOf(system_id) ==
    IF IdHolds(system_id, "prod") THEN "production"
    ELSE IF IdHolds(system_id, "stage") \/ IdHolds(system_id, "staging")
         THEN "staging"
    ELSE IF IdHolds(system_id, "dev") THEN "development"
    ELSE "unknown"

\* SystemEntity.__post_init__: the name defaults to the id
EntityName(name, system_id) == IF name = <<>> THEN system_id ELSE name

SummaryName(system_id) == system_id

\* UniversalDataLoader._create_basic_system_info
CreateBasicSystemInfo(system_id, processed_data) ==
    LET paths == KeysInOrder(DOMAIN processed_data)
        rhel_version == VersionFrom(paths, processed_data, <<"unknown">>)
    IN << [system_id |-> system_id,
           name |-> EntityName(SummaryName(system_id), system_id),
           system_type |-> "rhel_server",
           version |-> rhel_version,
           environment |-> EnvironmentOf(system_id),
           services |-> ServicesFrom(paths),
           components |-> <<>>,
           hostname |-> system_id,
           rhel_version |-> rhel_version,
           package_count |-> PackageCountFrom(paths, processed_data, 0)] >>

-----------------------------------------------------------------------------
(* The data the pipeline runs on                                           *)

SysA == <<"web-", "prod", "-01">>
SysB == <<"db-", "stage", "-01">>
SysC == <<"build-", "dev">>
Ghost == <<"ghost">>
SystemIds == {SysA, SysB, SysC, Ghost}

ReleasePath == <<"etc/", "redhat-release">>
PackagesPath == <<"var/lib/rpm/", "packages.txt">>
LogPath == <<"var/log/", "messages", ".log">>
ServicePath == <<"etc/systemd/system/", "httpd", ".service">>

ReleaseText == <<"R", "H", " ", "r", "e", "l", "e", "a", "s", "e", " ", "9", ".", "2", "\n">>
PackagesText == <<"a", "\n", "\n", "b", "\n">>
LogText == <<"ESC", "[", "3", "1", "m", "x", " ", " ", "y", "\n", "[", "D", "E", "B", "U", "G", "]", "z">>
ErrorLogText == <<"E", "r", "r", "o", "r", " ", "x">>
BlankText == <<" ", "\n">>
EmptyText == <<>>

File(content) == [content |-> content, readable |-> TRUE]
Unreadable == [content |-> EmptyText, readable |-> FALSE]

EmptyMap == <<>>

FsEmpty == EmptyMap
FsPlain ==
    (SysA :> (ReleasePath :> File(ReleaseText) @@ PackagesPath :> File(PackagesText)))
    @@ (SysB :> (LogPath :> File(LogText) @@ ServicePath :> Unreadable))
FsBlank ==
    (SysA :> (LogPath :> File(BlankText) @@ ReleasePath :> File(EmptyText)
              @@ ServicePath :> Unreadable))
    @@ (SysB :> EmptyMap)
    @@ (SysC :> (LogPath :> File(ErrorLogText) @@ ServicePath :> File(BlankText)))
FileSystems == {FsEmpty, FsPlain, FsBlank}

CleaningConfigs ==
    [remove_ansi_codes : BOOLEAN, normalize_whitespace : BOOLEAN,
     remove_debug_logs : BOOLEAN]

\* cleaning_config.get(<toggle>, True); also what the model keeps when no
\* TextProcessor is constructed
DefaultCleaning ==
    [remove_ansi_codes |-> TRUE, normalize_whitespace |-> TRUE,
     remove_debug_logs |-> TRUE]

\* the orders in which iterdir() may list the system directories
RECURSIVE Orders(_)
Orders(ids) ==
    IF ids = {} THEN {<<>>}
    ELSE UNION {{<<x>> \o o : o \in Orders(ids \ {x})} : x \in ids}

\* FilesystemDataSourceAdapter.list_available_systems: the directories in
\* some order, or [] when listing raises
\* ListAvailableSystems answering with a system that has no directory
ListPhantomSystems(files) == {<<Ghost>>}

ListAvailableSystems(files) == Orders(DOMAIN files) \cup {<<>>}

NotHanded == [given |-> FALSE, data |-> EmptyMap]
\* one entry of the log; how tells how load_system_data ended
Event(ev, system_id) == [ev |-> ev, system_id |-> system_id, how |-> "-"]
End(system_id, outcome) == [ev |-> "end", system_id |-> system_id, how |-> outcome.kind]

\* create_knowledge_graph as seen by load_system_data
NotCalled == [state |-> "not called", written |-> <<>>]

-----------------------------------------------------------------------------
(* UniversalDataLoader: load_system_data and load_all_systems              *)

\* entry of load_system_data(system_id)
BeginLoad(system_id, lg) ==
    /\ cur' = system_id
    /\ phase' = "read"
    /\ raw' = EmptyMap
    /\ processed' = EmptyMap
    /\ handed' = NotHanded
    /\ kg' = NotCalled
    /\ result' = NoOutcome
    /\ graphAtCall' = graph
    /\ log' = Append(lg, Event("begin", system_id))

\* a caller invokes load_system_data directly
CallLoadSystemData ==
    /\ mode = "idle"
    /\ \E system_id \in SystemIds : BeginLoad(system_id, <<>>)
    /\ mode' = "single"
    /\ UNCHANGED <<textEnabled, extractEnabled, cleaning, fs, listing, idx,
                   allSystems, allEvents, batchResult, graph>>

\* load_system_data has returned or raised: in a direct call control goes
\* back to the caller, in a batch to the loop of load_all_systems
ModeAfterLoad == IF mode = "single" THEN "idle" ELSE mode

\* OutcomeOfUnexpected with the exception left to propagate
OutcomeOfUnexpectedRaised(system_id) ==
    Raised([type |-> "FileNotFoundError",
            message |-> <<"System not found: ">> \o system_id])

\* `except Exception as e: ... return [], []`
OutcomeOfUnexpected(system_id) == Returned(<<>>, <<>>)

\* Phase 1: read_system_files; its FileNotFoundError is caught by
\* `except Exception`
ReadPhase ==
    /\ phase = "read"
    /\ IF SystemExists(fs, cur)
       THEN /\ raw' = ReadSystemFiles(fs, cur)
            /\ phase' = "process"
            /\ log' = Append(log, Event("read", cur))
            /\ UNCHANGED <<result, mode>>
       ELSE /\ result' = OutcomeOfUnexpected(cur)
            /\ phase' = "done"
            /\ mode' = ModeAfterLoad
            /\ log' = log \o <<Event("read", cur),
                                End(cur, OutcomeOfUnexpected(cur))>>
            /\ UNCHANGED raw
    /\ UNCHANGED <<textEnabled, extractEnabled, cleaning, fs, cur, processed,
                   handed, kg, listing, idx, allSystems, allEvents,
                   batchResult, graph, graphAtCall>>

\* Unprocessed with the text processor run all the same
UnprocessedCleaned(raw_files) ==
    ProcessFiles(raw_files, DefaultCleaning, DefaultChunking)

\* what load_system_data passes on when text processing is disabled
Unprocessed(raw_files) == PassThrough(raw_files)

\* Phase 2: process_files when the text processor exists
ProcessPhase ==
    /\ phase = "process"
    /\ IF textEnabled
       THEN /\ processed' = ProcessFiles(raw, cleaning, chunking)
            /\ log' = Append(log, Event("process", cur))
       ELSE /\ processed' = Unprocessed(raw)
            /\ log' = log
    /\ phase' = "extract"
    /\ UNCHANGED <<textEnabled, extractEnabled, cleaning, fs, mode, cur, raw,
                   handed, kg, result, listing, idx, allSystems, allEvents,
                   batchResult, graph, graphAtCall>>

\* OutcomeOfExtraction raising the error that does not name the system
OutcomeOfExtractionAnonymous(system_id, processed_data, success) ==
    IF success
    THEN Returned(CreateBasicSystemInfo(system_id, processed_data), <<>>)
    ELSE Raised(BuilderRequiredError)

\* OutcomeOfExtraction building the summary whatever the builder answered
OutcomeOfExtractionUnchecked(system_id, processed_data, success) ==
    Returned(CreateBasicSystemInfo(system_id, processed_data), <<>>)

\* the outcome of load_system_data once create_knowledge_graph has answered
OutcomeOfExtraction(system_id, processed_data, success) ==
    IF success
    THEN Returned(CreateBasicSystemInfo(system_id, processed_data), <<>>)
    ELSE Raised(GraphCreationFailedError(system_id))

\* OutcomeWithoutBuilder as a silent skip
OutcomeWithoutBuilderSkipped(system_id) == Returned(<<>>, <<>>)

\* the outcome of load_system_data when self.graph_builder is None
OutcomeWithoutBuilder(system_id) == Raised(BuilderRequiredError)

\* Phases 3 and 4: the builder check, create_knowledge_graph, the summary
ExtractPhase ==
    /\ phase = "extract"
    /\ IF ~extractEnabled
       THEN /\ result' = OutcomeWithoutBuilder(cur)
            /\ log' = Append(log, End(cur, OutcomeWithoutBuilder(cur)))
            /\ UNCHANGED <<handed, kg, graph>>
       ELSE \E resp \in Responses, storeOk \in BOOLEAN :
              LET out == AICreateKnowledgeGraph(cur, processed, resp, storeOk)
              IN /\ handed' = [given |-> TRUE, data |-> processed]
                 /\ kg' = [state |-> IF out.success THEN "true" ELSE "false",
                            written |-> out.written]
                 /\ graph' = AddGraphDocuments(graph, cur, out.written)
                 /\ result' = OutcomeOfExtraction(cur, processed, out.success)
                 /\ log' = log \o <<Event("extract", cur),
                                     End(cur, OutcomeOfExtraction(cur, processed,
                                                                  out.success))>>
    /\ phase' = "done"
    /\ mode' = ModeAfterLoad
    /\ UNCHANGED <<textEnabled, extractEnabled, cleaning, fs, cur, raw,
                   processed, listing, idx, allSystems, allEvents,
                   batchResult, graphAtCall>>

\* a caller invokes load_all_systems
CallLoadAllSystems ==
    /\ mode = "idle"
    /\ \E order \in ListAvailableSystems(fs) : listing' = order
    /\ mode' = "batch"
    /\ phase' = "between"
    /\ idx' = 1
    /\ allSystems' = <<>>
    /\ allEvents' = <<>>
    /\ batchResult' = NoOutcome
    /\ log' = <<>>
    /\ UNCHANGED <<textEnabled, extractEnabled, cleaning, fs, cur, raw,
                   processed, handed, kg, result, graph, graphAtCall>>

\* NextIndex with the loop stuck on the same system
NextIndexStuck(i) == i

\* the index of the system the loop of load_all_systems takes next
NextIndex(i) == i + 1

\* `for system_id in available_systems`: call load_system_data for the next
\* system, or return what was accumulated
BatchIterate ==
    /\ mode = "batch"
    /\ phase = "between"
    /\ IF idx <= Len(listing)
       THEN /\ BeginLoad(listing[idx], log)
            /\ UNCHANGED <<mode, batchResult>>
       ELSE /\ batchResult' = Returned(allSystems, allEvents)
            /\ mode' = "idle"
            /\ phase' = "returned"
            /\ UNCHANGED <<cur, raw, processed, handed, kg, result,
                           graphAtCall, log>>
    /\ UNCHANGED <<textEnabled, extractEnabled, cleaning, fs, listing, idx,
                   allSystems, allEvents, graph>>

\* Propagates with the loop isolating each system's failure
PropagatesNever(outcome) == FALSE

\* the loop body has no try block: what load_system_data raises leaves
\* load_all_systems
Propagates(outcome) == outcome.kind = "raised"

\* load_system_data came back inside the loop: an exception propagates out
\* of load_all_systems, a result extends the accumulators
BatchCollect ==
    /\ mode = "batch"
    /\ phase = "done"
    /\ IF Propagates(result)
       THEN /\ batchResult' = Raised(result.error)
            /\ mode' = "idle"
            /\ phase' = "aborted"
            /\ UNCHANGED <<idx, allSystems, allEvents>>
       ELSE /\ allSystems' = allSystems \o result.systems
            /\ allEvents' = allEvents \o result.events
            /\ idx' = NextIndex(idx)
            /\ phase' = "between"
            /\ UNCHANGED <<mode, batchResult>>
    /\ UNCHANGED <<textEnabled, extractEnabled, cleaning, fs, cur, raw,
                   processed, handed, kg, result, listing, log, graph,
                   graphAtCall>>

PipeInit ==
    /\ textEnabled \in BOOLEAN
    /\ extractEnabled \in BOOLEAN
    /\ cleaning \in (IF textEnabled THEN CleaningConfigs ELSE {DefaultCleaning})
    /\ fs \in FileSystems
    /\ mode = "idle"
    /\ phase = "none"
    /\ cur = <<>>
    /\ raw = EmptyMap
    /\ processed = EmptyMap
    /\ handed = NotHanded
    /\ kg = NotCalled
    /\ result = NoOutcome
    /\ listing = <<>>
    /\ idx = 0
    /\ allSystems = <<>>
    /\ allEvents = <<>>
    /\ batchResult = NoOutcome
    /\ log = <<>>
    /\ graph = {}
    /\ graphAtCall = {}

-----------------------------------------------------------------------------
(* Graph builders called directly (create_graph_builder 'ai' and 'rules')  *)

Raw(content) == [kind |-> "raw", cleaned_content |-> content]

BuilderContents == {EmptyText, BlankText, <<"x">>}

\* processed_data maps of at most two files
BuilderInputs ==
    {EmptyMap}
    \cup {LogPath :> Raw(c) : c \in BuilderContents}
    \cup {LogPath :> Raw(c) @@ ReleasePath :> Raw(d) :
            c \in BuilderContents, d \in BuilderContents}

NoBuild ==
    [variant |-> "none", system_id |-> <<>>, processed_data |-> EmptyMap,
     response |-> [kind |-> "raises", docs |-> <<>>], storeOk |-> FALSE,
     success |-> FALSE, raised |-> FALSE]

\* AIGraphBuilder.create_knowledge_graph called on a constructed builder
AIBuild ==
    /\ inst.variant = "ai"
    /\ \E system_id \in {SysA, SysB}, pd \in BuilderInputs,
          resp \in Responses, storeOk \in BOOLEAN :
         LET out == AICreateKnowledgeGraph(system_id, pd, resp, storeOk)
         IN /\ build' = [variant |-> "ai", system_id |-> system_id,
                         processed_data |-> pd, response |-> resp,
                         storeOk |-> storeOk, success |-> out.success,
                         raised |-> out.raised]
            /\ graph' = AddGraphDocuments(graph, system_id, out.written)
    /\ UNCHANGED <<textEnabled, extractEnabled, cleaning, fs, mode, phase, cur,
                   raw, processed, handed, kg, result, listing, idx,
                   allSystems, allEvents, batchResult, log, graphAtCall, inst>>

\* RuleBasedGraphBuilder.create_knowledge_graph
RuleBuild ==
    /\ inst.variant = "rules"
    /\ \E system_id \in {SysA, SysB}, pd \in BuilderInputs :
         LET out == RuleCreateKnowledgeGraph(system_id, pd)
         IN build' = [variant |-> "rules", system_id |-> system_id,
                      processed_data |-> pd,
                      response |-> [kind |-> "raises", docs |-> <<>>],
                      storeOk |-> FALSE, success |-> out.success,
                      raised |-> out.raised]
    /\ UNCHANGED <<pipeVars, inst>>

\* what AIGraphBuilder.__init__ is given: whether the LangChain packages can
\* be imported, whether llm_config and neo4j_config hold every key read,
\* and whether Neo4jGraph(...) accepts the connection parameters
BuilderConfigs ==
    [libs : {"available", "missing"},
     llm : {"complete", "incomplete"},
     neo4j : {"complete", "incomplete"},
     connection : {"accepted", "refused"}]

UsableConfig ==
    [libs |-> "available", llm |-> "complete", neo4j |-> "complete",
     connection |-> "accepted"]

\* no graph builder exists
NoInstance ==
    [variant |-> "none", config |-> UsableConfig, ctorRaised |-> FALSE,
     closes |-> 0, via |-> "-", connFailed |-> FALSE, closeRaised |-> FALSE]

\* the try block of AIGraphBuilder.__init__ is left by an ImportError, by
\* the KeyError of a missing key, or by what ChatOpenAI, Neo4jGraph or
\* LLMGraphTransformer raise
AIInitFails(cfg) ==
    \/ cfg.libs = "missing"
    \/ cfg.llm = "incomplete"
    \/ cfg.neo4j = "incomplete"
    \/ cfg.connection = "refused"

\* AIGraphBuilder.__init__: both handlers raise RuntimeError, so a failed
\* construction leaves no instance
ConstructAI ==
    /\ \E cfg \in BuilderConfigs :
         inst' = IF AIInitFails(cfg)
                 THEN [NoInstance EXCEPT !.config = cfg, !.ctorRaised = TRUE]
                 ELSE [NoInstance EXCEPT !.variant = "ai", !.config = cfg]
    /\ build' = NoBuild
    /\ UNCHANGED pipeVars

\* RuleBasedGraphBuilder.__init__ stores its arguments and opens nothing
ConstructRules ==
    /\ inst' = [NoInstance EXCEPT !.variant = "rules"]
    /\ build' = NoBuild
    /\ UNCHANGED pipeVars

MaxCloses == 2

\* AICloseRaises without the handler around neo4j_graph.close()
AICloseRaisesUnguarded(connFails) == connFails

\* AIGraphBuilder.close: `try: self.neo4j_graph.close() except: pass`
AICloseRaises(connFails) == FALSE

\* RuleBasedGraphBuilder.close: `pass`
RuleCloseRaises == FALSE

\* close() of the builder b holds; connFails says whether the connection's
\* own close throws (only an AI builder holds a connection)
CloseOf(b, via, connFails) ==
    [b EXCEPT !.closes = @ + 1,
              !.via = via,
              !.connFailed = (b.variant = "ai" /\ connFails),
              !.closeRaised = IF b.variant = "ai" THEN AICloseRaises(connFails)
                              ELSE RuleCloseRaises]

\* a caller closes the builder it constructed
CloseBuilder ==
    /\ inst.variant \in {"ai", "rules"}
    /\ inst.closes < MaxCloses
    /\ \E connFails \in BOOLEAN : inst' = CloseOf(inst, "builder", connFails)
    /\ UNCHANGED <<pipeVars, build>>

\* UniversalDataLoader.close: closes self.graph_builder when it is set (the
\* AI builder, or None with ai_extraction disabled); self.graph_loader is
\* never assigned by __init__, so that branch is not taken
CloseLoader ==
    /\ inst.variant \in {"ai", "none"}
    /\ inst.closes < MaxCloses
    /\ \E connFails \in BOOLEAN :
         inst' = IF inst.variant = "ai" THEN CloseOf(inst, "loader", connFails)
                 ELSE [inst EXCEPT !.closes = @ + 1, !.via = "loader",
                                   !.connFailed = FALSE, !.closeRaised = FALSE]
    /\ UNCHANGED <<pipeVars, build>>

BuildInit == build = NoBuild /\ inst = NoInstance

-----------------------------------------------------------------------------
(* Neo4jGraphLoader and its database                                       *)

MaxSystems == 2
MaxEvents == 2

SinkSystemIds == {"s1", "s2"}
ServiceNames == {"httpd", "sshd"}
EventIds == {"e1", "e2"}

\* a SystemEntity as load_systems_and_events reads it; compat says whether
\* the hostname, rhel_version and package_count attributes were added
SinkSystems ==
    { [system_id |-> "s1", services |-> <<"httpd">>, compat |-> TRUE],
      [system_id |-> "s2", services |-> <<"httpd", "sshd">>, compat |-> TRUE],
      [system_id |-> "s2", services |-> <<"sshd">>, compat |-> FALSE] }

SinkEvents ==
    { [event_id |-> "e1", system_id |-> "s1"],
      [event_id |-> "e2", system_id |-> "s2"] }

RECURSIVE SeqsUpTo(_, _)
SeqsUpTo(S, n) ==
    IF n = 0 THEN {<<>>}
    ELSE LET shorter == SeqsUpTo(S, n - 1)
         IN shorter \cup {Append(q, x) : q \in {r \in shorter : Len(r) = n - 1}, x \in S}

SystemLists == SeqsUpTo(SinkSystems, MaxSystems)
EventLists == SeqsUpTo(SinkEvents, MaxEvents)

EmptyStore ==
    [systems |-> [k \in SinkSystemIds |-> 0],
     services |-> [k \in ServiceNames |-> 0],
     events |-> [k \in EventIds |-> 0],
     runs |-> [k \in SinkSystemIds \X ServiceNames |-> 0],
     has_event |-> [k \in SinkSystemIds \X EventIds |-> 0],
     attempted |-> {}]

RECURSIVE Total(_, _)
Total(f, keys) ==
    IF keys = {} THEN 0
    ELSE LET k == CHOOSE x \in keys : TRUE
         IN f[k] + Total(f, keys \ {k})

\* what the database holds, by label and relationship type
Counts(st) ==
    [System |-> Total(st.systems, DOMAIN st.systems),
     Service |-> Total(st.services, DOMAIN st.services),
     Event |-> Total(st.events, DOMAIN st.events),
     RUNS |-> Total(st.runs, DOMAIN st.runs),
     HAS_EVENT |-> Total(st.has_event, DOMAIN st.has_event)]

\* MergeNode as CREATE would behave: a new node on every write
CreateNode(n) == n + 1

\* MERGE of a node on its key: the number of nodes with that key afterwards
MergeNode(n) == IF n = 0 THEN 1 ELSE n

\* MergeRelationship as CREATE would behave
CreateRelationship(n, from, to) ==
    IF from = 0 \/ to = 0 THEN n ELSE n + from * to

\* MERGE of a relationship between the matched end nodes: nothing without
\* both ends, else one relationship per pair of end nodes that lacks one
MergeRelationship(n, from, to) ==
    IF from = 0 \/ to = 0 THEN n
    ELSE IF n = 0 THEN from * to ELSE n

\* the statements of one load_systems_and_events call that the database may
\* reject are named <<kind, position...>>; fail is the set it rejects
NoFaults == {}

\* the loop reached the statement stmt of the call in progress
Attempt(st, stmt) == [st EXCEPT !.attempted = @ \cup {stmt}]

\* the per-service statement of _load_systems:
\* MERGE (s:System) MERGE (svc:Service) MERGE (s)-[:RUNS]->(svc)
MergeService(st, system_id, service) ==
    LET s == MergeNode(st.systems[system_id])
        v == MergeNode(st.services[service])
    IN [st EXCEPT !.systems[system_id] = s,
                  !.services[service] = v,
                  !.runs[<<system_id, service>>] = MergeRelationship(@, s, v)]

\* `for service in system.services`; a rejected statement ends the try block
RECURSIVE LoadServices(_, _, _, _, _)
LoadServices(st, system, i, j, fail) ==
    IF j > Len(system.services) THEN st
    ELSE LET s == Attempt(st, <<"service", i, j>>)
         IN IF <<"service", i, j>> \in fail THEN s
            ELSE LoadServices(MergeService(s, system.system_id, system.services[j]),
                              system, i, j + 1, fail)

\* the MERGE (s:System {system_id: ...}) SET ... statement of _load_systems
MergeSystem(st, system_id) ==
    [st EXCEPT !.systems[system_id] = MergeNode(@)]

\* one iteration of the loop of _load_systems; reading system.hostname of an
\* entity without the compatibility attributes raises AttributeError, which
\* the loop catches like a rejected statement
LoadSystem(st, system, i, fail) ==
    LET s == Attempt(st, <<"system", i>>)
    IN IF ~system.compat \/ <<"system", i>> \in fail THEN s
       ELSE LoadServices(MergeSystem(s, system.system_id), system, i, 1, fail)

\* Neo4jGraphLoader._load_systems
RECURSIVE LoadSystems(_, _, _, _)
LoadSystems(st, systems, i, fail) ==
    IF i > Len(systems) THEN st
    ELSE LoadSystems(LoadSystem(st, systems[i], i, fail), systems, i + 1, fail)

\* the MERGE (e:Event {event_id: ...}) SET ... statement of _load_events
MergeEvent(st, event_id) == [st EXCEPT !.events[event_id] = MergeNode(@)]

\* Neo4jGraphLoader._load_events
RECURSIVE LoadEvents(_, _, _, _)
LoadEvents(st, events, k, fail) ==
    IF k > Len(events) THEN st
    ELSE LET s == Attempt(st, <<"event", k>>)
         IN LoadEvents(IF <<"event", k>> \in fail THEN s
                       ELSE MergeEvent(s, events[k].event_id),
                       events, k + 1, fail)

\* MATCH (s:System) MATCH (e:Event) MERGE (s)-[:HAS_EVENT]->(e)
MergeHasEvent(st, system_id, event_id) ==
    [st EXCEPT !.has_event[<<system_id, event_id>>] =
        MergeRelationship(@, st.systems[system_id], st.events[event_id])]

\* Neo4jGraphLoader._create_relationships: the try block encloses the loop,
\* so a rejected statement ends it
RECURSIVE CreateRelationships(_, _, _, _)
CreateRelationships(st, events, k, fail) ==
    IF k > Len(events) THEN st
    ELSE LET s == Attempt(st, <<"rel", k>>)
         IN IF <<"rel", k>> \in fail THEN s
            ELSE CreateRelationships(
                     MergeHasEvent(s, events[k].system_id, events[k].event_id),
                     events, k + 1, fail)

\* Neo4jGraphLoader._clear_existing_data: MATCH (n) DETACH DELETE n; a
\* rejected statement is logged and the data stays
ClearExistingData(st, fail) == IF <<"clear">> \in fail THEN st ELSE EmptyStore

\* `if self.neo4j_config.get('management', {}).get('clear_on_startup', False)`
\* in load_systems_and_events; n is the number of clearings done so far
ClearsNow(n) == clearOnStartup

\* the database after load_systems_and_events on a connected loader
LoadedStore(st, systems, events, clear, fail) ==
    LET s0 == [(IF clear THEN ClearExistingData(st, fail) ELSE st)
                  EXCEPT !.attempted = {}]
        s1 == LoadSystems(s0, systems, 1, fail)
        s2 == LoadEvents(s1, events, 1, fail)
    IN CreateRelationships(s2, events, 1, fail)

NoCall == [called |-> FALSE, systems |-> <<>>, events |-> <<>>]

MaxClears == 2

\* some node or relationship of st is no longer in after
Removed(st, after) ==
    \E f \in {"systems", "services", "events", "runs", "has_event"} :
        \E k \in DOMAIN st[f] : st[f][k] > 0 /\ after[f][k] = 0

\* Neo4jGraphLoader.load_systems_and_events: without a driver it returns
\* False and writes nothing; a session that cannot be opened gives False
LoadSystemsAndEvents(systems, events, fail) ==
    LET ok == driver /\ <<"session">> \notin fail
        clear == ok /\ ClearsNow(clears)
        after == IF ok
                 THEN LoadedStore(store, systems, events, clear, fail)
                 ELSE store
    IN /\ store' = after
       /\ last' = [called |-> TRUE, systems |-> systems, events |-> events]
       /\ sink' = [returned |-> ok,
                   repeated |-> last = [called |-> TRUE, systems |-> systems,
                                        events |-> events],
                   before |-> Counts(store)]
       /\ clears' = IF clear /\ <<"clear">> \notin fail /\ clears < MaxClears
                    THEN clears + 1 ELSE clears
       /\ lost' = Removed(store, store')
       /\ UNCHANGED <<neo4jConfig, driver, constraints, clearOnStartup>>

\* the statements of a call on these inputs
Statements(systems, events) ==
    {<<"session">>, <<"clear">>}
    \cup {<<"system", i>> : i \in 1..Len(systems)}
    \cup {<<"service", i, j>> : i \in 1..Len(systems), j \in 1..2}
    \cup {<<"event", k>> : k \in 1..Len(events)}
    \cup {<<"rel", k>> : k \in 1..Len(events)}

\* the database rejects none of them, or one
Faults(systems, events) ==
    {NoFaults} \cup {{f} : f \in Statements(systems, events)}

\* a caller loads some systems and events; the database accepts every write
SinkLoad ==
    /\ \E systems \in SystemLists, events \in EventLists :
         LoadSystemsAndEvents(systems, events, NoFaults)
    /\ UNCHANGED <<pipeVars, buildVars>>

\* the neo4j_config a loader may be constructed with: complete and
\* reachable, lacking a key (uri, username or password), or naming a server
\* that does not answer
Neo4jConfigs == {"usable", "incomplete", "unreachable"}

\* Neo4jGraphLoader.__init__: any exception of its try block (the KeyError
\* of a missing key, a refused connection) is logged and leaves
\* self.driver = None; the constructor itself returns normally
DriverAfterInit(cfg) == cfg = "usable"

\* _create_indexes_and_constraints, called by __init__ on a connected
\* driver: a rejected CREATE CONSTRAINT is only warned about
ConstraintsAfterInit(connected) == IF connected THEN BOOLEAN ELSE {FALSE}

\* the first call on a loader: it loads some systems and events, and the
\* database rejects at most one statement of the call
SinkLoadFaulty ==
    /\ ~last.called
    /\ \E systems \in SystemLists, events \in EventLists :
         \E fail \in Faults(systems, events) :
            LoadSystemsAndEvents(systems, events, fail)
    /\ UNCHANGED <<pipeVars, buildVars>>

\* after Neo4jGraphLoader.__init__: connected or not
SinkInit ==
    /\ neo4jConfig \in Neo4jConfigs
    /\ driver = DriverAfterInit(neo4jConfig)
    /\ constraints \in ConstraintsAfterInit(driver)
    /\ clearOnStartup \in BOOLEAN
    /\ store = EmptyStore
    /\ last = NoCall
    /\ sink = [returned |-> FALSE, repeated |-> FALSE, before |-> Counts(EmptyStore)]
    /\ clears = 0
    /\ lost = FALSE

-----------------------------------------------------------------------------
(* TextProcessor called directly                                           *)

MaxChunk == 3

\* chunking.max_chunk_size as configured: small sizes, zero, and the default
ChunkSizes == 0..MaxChunk \cup {DefaultMaxChunkSize}

\* what TextProcessor.__init__ leaves: the configured size and the splitter
\* (None unless LANGCHAIN_AVAILABLE)
ChunkingConfigs ==
    [max_chunk_size : ChunkSizes, text_splitter : {"none", "splits", "raises"}]

PaddedText == <<" ", "x", " ">>
DebugLinesText == <<"a", "\n", "[", "D", "E", "B", "U", "G", "]", "b", "\n", "c">>
DebugOnlyText == <<"[", "D", "E", "B", "U", "G", "]">>
ConfText == <<"k", " ", "=", "v", "\n", "#", "c", "=", "d", "\n", "k", "=", "w", "\n", "z">>
LongText == [i \in 1..(RawContentLimit + 1) |-> IF i % 2 = 1 THEN "x" ELSE "y"]

ShortTexts ==
    {EmptyText, BlankText, PaddedText, PackagesText, LogText, ErrorLogText,
     ErrorMarker, DebugLinesText, DebugOnlyText, ConfText, ReleaseText}
Texts == ShortTexts \cup {LongText}

ConfPath == <<"etc/", "app", ".conf">>

\* paths that match one check, several checks, a check in upper case, or none
Paths ==
    {ReleasePath, PackagesPath, LogPath, ServicePath, ConfPath,
     <<"etc/", "yum", ".repo">>,
     <<"etc/", "motd">>,
     <<"var/log/", "messages", ".LOG">>,
     <<"var/lib/rpm/", "Packages.txt">>,
     <<"packages.txt", ".log">>,
     <<"packages.txt", ".conf">>,
     <<"redhat-release", ".service">>,
     <<"redhat-release", "packages.txt">>,
     <<"redhat-release", ".repo">>,
     <<"httpd", ".service", ".log">>}

\* the raw_files process_files is called with
RawFileMaps ==
    {(LogPath :> a @@ PackagesPath :> b) :
        a \in {EmptyText, PaddedText, LogText, ErrorMarker, DebugLinesText},
        b \in {BlankText, PackagesText, ErrorLogText, DebugOnlyText}}
    \cup {EmptyMap,
          (ConfPath :> ConfText @@ ReleasePath :> ReleaseText
           @@ ServicePath :> PaddedText),
          (LogPath :> LongText @@ ConfPath :> ConfText
           @@ ServicePath :> PaddedText),
          (LogPath :> LongText @@ ReleasePath :> LongText)}

\* the methods of TextProcessor keep nothing from one call to the next, so a
\* behaviour is one call on a processor of some configuration
NoTextCall ==
    [op |-> "none", file_path |-> <<>>, text |-> <<>>, raw_files |-> EmptyMap,
     out |-> <<>>]

\* a caller invokes _clean_text(text)
CleanTextCall ==
    /\ call = NoTextCall
    /\ \E text \in Texts :
         call' = [op |-> "_clean_text", file_path |-> <<>>, text |-> text,
                  raw_files |-> EmptyMap, out |-> CleanText(text, cleaning)]
    /\ UNCHANGED <<pipeVars, chunking>>

\* a caller invokes _detect_file_type(file_path, content)
DetectFileTypeCall ==
    /\ call = NoTextCall
    /\ \E file_path \in Paths, content \in ShortTexts :
         call' = [op |-> "_detect_file_type", file_path |-> file_path,
                  text |-> content, raw_files |-> EmptyMap,
                  out |-> DetectFileType(file_path, content)]
    /\ UNCHANGED <<pipeVars, chunking>>

\* a caller invokes _chunk_text(text)
ChunkTextCall ==
    /\ call = NoTextCall
    /\ \E text \in Texts :
         call' = [op |-> "_chunk_text", file_path |-> <<>>, text |-> text,
                  raw_files |-> EmptyMap, out |-> ChunkText(text, chunking)]
    /\ UNCHANGED <<pipeVars, chunking>>

\* a caller invokes process_files(raw_files)
ProcessFilesCall ==
    /\ call = NoTextCall
    /\ \E raw_files \in RawFileMaps :
         call' = [op |-> "process_files", file_path |-> <<>>, text |-> <<>>,
                  raw_files |-> raw_files,
                  out |-> ProcessFiles(raw_files, cleaning, chunking)]
    /\ UNCHANGED <<pipeVars, chunking>>

\* after TextProcessor.__init__
TextInit ==
    /\ chunking \in ChunkingConfigs
    /\ call = NoTextCall

-----------------------------------------------------------------------------
(* get_universal_loader, get_unified_loader and get_config_loader          *)

MaxLoaders == 3

\* the environment argument; "None" stands for the argument left out
EnvironmentArgs == {"None", "development", "production", "testing"}

\* os.environ: ENVIRONMENT unset or set
EnvironValues == {"unset", "production", "staging"}

\* os.getenv('ENVIRONMENT', 'production')
GetEnv(env) == IF env = "unset" THEN "production" ELSE env

\* the global before the first get_config_loader
NoConfigLoader == [created |-> FALSE, environment |-> "-"]

\* get_config_loader(environment): the global after the call, which is also
\* what the call returns
GetConfigLoader(global, environment, env) ==
    IF \/ ~global.created
       \/ (environment # "None" /\ environment # global.environment)
    THEN [created |-> TRUE,
          environment |-> IF environment # "None" THEN environment
                          ELSE GetEnv(env)]
    ELSE global

\* UniversalDataLoader.__init__: self.config_loader and self.environment
NewLoader(global, environment, env, via) ==
    [config_loader |-> GetConfigLoader(global, environment, env),
     environment |-> IF environment # "None" THEN environment ELSE "production",
     via |-> via]

\* get_universal_loader(environment)
GetUniversalLoader ==
    /\ Len(loaders) < MaxLoaders
    /\ \E environment \in EnvironmentArgs :
         LET loader == NewLoader(configLoader, environment, environ,
                                 "get_universal_loader")
         IN /\ configLoader' = loader.config_loader
            /\ loaders' = Append(loaders, loader)
    /\ UNCHANGED <<environ, pipeVars, buildVars, sinkVars, textVars>>

\* get_unified_loader(environment): the alias
GetUnifiedLoader ==
    /\ Len(loaders) < MaxLoaders
    /\ \E environment \in EnvironmentArgs :
         LET loader == NewLoader(configLoader, environment, environ,
                                 "get_unified_loader")
         IN /\ configLoader' = loader.config_loader
            /\ loaders' = Append(loaders, loader)
    /\ UNCHANGED <<environ, pipeVars, buildVars, sinkVars, textVars>>

\* a fresh process: no config loader, no loader
EnvInit ==
    /\ environ \in EnvironValues
    /\ configLoader = NoConfigLoader
    /\ loaders = <<>>

-----------------------------------------------------------------------------
(* Specifications                                                          *)

\* one configuration of the pipeline, for the specifications of the other
\* components
PipeFixed ==
    /\ PipeInit
    /\ textEnabled
    /\ extractEnabled
    /\ cleaning = DefaultCleaning
    /\ fs = FsEmpty

\* a text processor with the default chunking, not called directly
TextFixed == TextInit /\ chunking = DefaultChunking

\* a process in which ENVIRONMENT is unset
EnvFixed == EnvInit /\ environ = "unset"

SinkFixed == SinkInit /\ driver /\ constraints /\ ~clearOnStartup

Init == PipeInit /\ BuildInit /\ SinkFixed /\ TextFixed /\ EnvFixed

Next ==
    \/ CallLoadSystemData /\ UNCHANGED <<buildVars, sinkVars, textVars, envVars>>
    \/ ReadPhase /\ UNCHANGED <<buildVars, sinkVars, textVars, envVars>>
    \/ ProcessPhase /\ UNCHANGED <<buildVars, sinkVars, textVars, envVars>>
    \/ ExtractPhase /\ UNCHANGED <<buildVars, sinkVars, textVars, envVars>>
    \/ CallLoadAllSystems /\ UNCHANGED <<buildVars, sinkVars, textVars, envVars>>
    \/ BatchIterate /\ UNCHANGED <<buildVars, sinkVars, textVars, envVars>>
    \/ BatchCollect /\ UNCHANGED <<buildVars, sinkVars, textVars, envVars>>

\* the pipeline: UniversalDataLoader driven by its callers
Spec == Init /\ [][Next]_vars

BuilderInit == PipeFixed /\ BuildInit /\ SinkFixed /\ TextFixed /\ EnvFixed

BuilderNext ==
    \/ ConstructAI /\ UNCHANGED <<sinkVars, textVars, envVars>>
    \/ ConstructRules /\ UNCHANGED <<sinkVars, textVars, envVars>>
    \/ AIBuild /\ UNCHANGED <<sinkVars, textVars, envVars>>
    \/ RuleBuild /\ UNCHANGED <<sinkVars, textVars, envVars>>
    \/ CloseBuilder /\ UNCHANGED <<sinkVars, textVars, envVars>>
    \/ CloseLoader /\ UNCHANGED <<sinkVars, textVars, envVars>>

\* the two graph builders called directly
SpecBuilder == BuilderInit /\ [][BuilderNext]_vars

\* a loader that connected and created its constraints
SinkSpecInit ==
    /\ PipeFixed /\ BuildInit /\ SinkInit /\ driver /\ constraints
    /\ TextFixed /\ EnvFixed

SinkNext == SinkLoad /\ UNCHANGED <<textVars, envVars>>

\* the persistence sink, connected, with a database that accepts every write
SpecSink == SinkSpecInit /\ [][SinkNext]_vars

\* a loader as its constructor leaves it, whatever it was given
SinkFaultyInit == PipeFixed /\ BuildInit /\ SinkInit /\ TextFixed /\ EnvFixed

SinkFaultyNext == SinkLoadFaulty /\ UNCHANGED <<textVars, envVars>>

\* the persistence sink constructed from any configuration, in the first
\* call of which the database may reject a statement
SpecSinkFaulty == SinkFaultyInit /\ [][SinkFaultyNext]_vars

\* a text processor of any cleaning and chunking configuration
TextSpecInit ==
    /\ PipeInit /\ textEnabled /\ extractEnabled /\ fs = FsEmpty
    /\ BuildInit /\ SinkFixed /\ TextInit /\ EnvFixed

TextNext ==
    \/ CleanTextCall /\ UNCHANGED <<buildVars, sinkVars, envVars>>
    \/ DetectFileTypeCall /\ UNCHANGED <<buildVars, sinkVars, envVars>>
    \/ ChunkTextCall /\ UNCHANGED <<buildVars, sinkVars, envVars>>
    \/ ProcessFilesCall /\ UNCHANGED <<buildVars, sinkVars, envVars>>

\* the TextProcessor methods called directly
SpecText == TextSpecInit /\ [][TextNext]_vars

EnvSpecInit == PipeFixed /\ BuildInit /\ SinkFixed /\ TextFixed /\ EnvInit

EnvNext ==
    \/ GetUniversalLoader
    \/ GetUnifiedLoader

\* the loader factories called in any order with any environment argument
SpecEnv == EnvSpecInit /\ [][EnvNext]_vars

-----------------------------------------------------------------------------
(* Properties                                                              *)

\* C1 (SpecSink): with clear_on_startup disabled, a load_systems_and_events
\* call that repeats the input of the call before it leaves the numbers of
\* System, Service and Event nodes and of RUNS and HAS_EVENT relationships as
\* they were after that first call.
C1_IdempotentLoad ==
    (sink.repeated /\ ~clearOnStartup) => Counts(store) = sink.before

\* a repeated call on a connected loader whose database holds nodes of each
\* label and relationships of each type
C1_Witness ==
    /\ sink.repeated
    /\ ~clearOnStartup
    /\ sink.returned
    /\ \A k \in DOMAIN Counts(store) : Counts(store)[k] >= 1

\* load_system_data has returned or raised
Finished == phase = "done"

\* C2 as claimed (Spec): with ai_extraction disabled, load_system_data raises
\* for every system id it is called with and never returns normally.
C2_AlwaysRaisesWhenDisabled ==
    (Finished /\ ~extractEnabled) => result.kind = "raised"

\* C2 as amended (Spec): with ai_extraction disabled, load_system_data raises
\* a RuntimeError for every system id whose storage location exists, and for
\* these it never returns normally; for a system id without one the adapter's
\* NotFound comes first and the call returns two empty result sets.
C2_RaisesWhenDisabledAndReadable ==
    (Finished /\ ~extractEnabled) =>
        IF SystemExists(fs, cur)
        THEN result.kind = "raised" /\ result.error.type = "RuntimeError"
        ELSE result = Returned(<<>>, <<>>)

\* load_system_data ended for an existing system with extraction disabled
C2_Witness ==
    Finished /\ ~extractEnabled /\ SystemExists(fs, cur) /\ result.kind = "raised"

\* C3 (Spec): when create_knowledge_graph returned False, load_system_data
\* raises a RuntimeError whose message holds the system id, and returns no
\* summary.
C3_FailedExtractionRaises ==
    (Finished /\ kg.state = "false") =>
        /\ result.kind = "raised"
        /\ result.error.type = "RuntimeError"
        /\ Contains(result.error.message, cur)
        /\ result.systems = <<>>

\* create_knowledge_graph was called in this load_system_data and gave False
C3_Witness == Finished /\ kg.state = "false" /\ handed.given

\* the log entries of the phases named
PhaseEntries(phases) == {i \in 1..Len(log) : log[i].ev \in phases}

\* C4 (Spec): when read_system_files fails with NotFound, load_system_data
\* returns two empty result sets without raising; in that call the text
\* processor and the graph builder are not invoked and the graph store is as
\* it was when the call began.
C4_NotFoundReturnsEmpty ==
    (Finished /\ ~SystemExists(fs, cur)) =>
        /\ result = Returned(<<>>, <<>>)
        /\ \A i \in PhaseEntries({"process", "extract"}) : log[i].system_id # cur
        /\ processed = EmptyMap
        /\ ~handed.given
        /\ kg = NotCalled
        /\ graph = graphAtCall

\* a call for a system id without a directory has ended, on a graph store
\* that already holds data
C4_Witness ==
    Finished /\ ~SystemExists(fs, cur) /\ graph # {} /\ \E i \in PhaseEntries({"read"}) : log[i].system_id = cur

\* the log belongs to a load_all_systems call
InBatch == mode = "batch" \/ phase \in {"aborted", "returned"}

\* C5 (Spec): in load_all_systems, once load_system_data has raised for the
\* k-th listed system nothing more is read, processed or extracted (the
\* raising call's end is the last entry of the log, and only the first k
\* listed systems appear in it); load_all_systems then raises that error and
\* returns no summaries.
C5_BatchAbortsOnFirstFailure ==
    InBatch =>
        \A i \in 1..Len(log) :
            (log[i].ev = "end" /\ log[i].how = "raised") =>
                /\ i = Len(log)
                /\ idx <= Len(listing)
                /\ log[i].system_id = listing[idx]
                /\ \A j \in 1..Len(log) :
                       \E k \in 1..idx : log[j].system_id = listing[k]
                /\ mode = "idle" =>
                       /\ phase = "aborted"
                       /\ batchResult = Raised(result.error)
                       /\ batchResult.kind = "raised"
                       /\ batchResult.systems = <<>>
                       /\ batchResult.events = <<>>

\* load_all_systems has ended on the failure of the second of three systems
C5_Witness ==
    /\ phase = "aborted"
    /\ mode = "idle"
    /\ idx = 2
    /\ Len(listing) = 3
    /\ log[Len(log)].how = "raised"

\* the system ids of the begin entries of the log, in order
Begun == SelectSeq(log, LAMBDA e : e.ev = "begin")

\* C6 (Spec): in load_all_systems the systems are loaded in listing order,
\* each at most once; a load_system_data begins only when the one before it
\* has ended; within one the phases are read, then process (only when text
\* processing is enabled), then extract, each at most once and each directly
\* after its predecessor.
C6_PhaseOrdering ==
    InBatch =>
        /\ Len(Begun) <= Len(listing)
        /\ \A j \in 1..Len(Begun) : Begun[j].system_id = listing[j]
        /\ \A j, k \in 1..Len(listing) : listing[j] = listing[k] => j = k
        /\ \A i \in 1..Len(log) :
             LET e == log[i]
                 prev == log[i - 1]
             IN CASE e.ev = "begin" -> i = 1 \/ prev.ev = "end"
                  [] e.ev = "read" ->
                       i > 1 /\ prev.ev = "begin" /\ prev.system_id = e.system_id
                  [] e.ev = "process" ->
                       /\ textEnabled
                       /\ i > 1 /\ prev.ev = "read" /\ prev.system_id = e.system_id
                  [] e.ev = "extract" ->
                       /\ i > 1 /\ prev.system_id = e.system_id
                       /\ prev.ev = (IF textEnabled THEN "process" ELSE "read")
                  [] e.ev = "end" ->
                       /\ i > 1 /\ prev.system_id = e.system_id
                       /\ prev.ev \in {"read", "process", "extract"}

\* load_all_systems has returned after loading three systems with every
\* phase
C6_Witness ==
    /\ phase = "returned"
    /\ textEnabled
    /\ Len(listing) = 3
    /\ Cardinality(PhaseEntries({"process"})) = 3
    /\ Cardinality(PhaseEntries({"extract"})) = 3

\* C7 (Spec): load_system_data returns a non-empty system list only if
\* create_knowledge_graph returned True in that call, with what it extracted
\* already in the graph store; the result is then exactly one SystemEntity
\* whose system_id and name are the requested id, and an empty event list.
C7_SummaryOnlyAfterPersist ==
    (Finished /\ result.systems # <<>>) =>
        /\ result.kind = "returned"
        /\ kg.state = "true"
        /\ handed.given
        /\ AddGraphDocuments(graph, cur, kg.written) = graph
        /\ Len(result.systems) = 1
        /\ result.systems[1].system_id = cur
        /\ result.systems[1].name = cur
        /\ result.events = <<>>

\* a load_system_data returned a summary after an extraction that wrote
\* nodes to the graph store
C7_Witness ==
    Finished /\ result.systems # <<>> /\ kg.written # <<>> /\ graph # graphAtCall

\* C8 (Spec): with text processing disabled, the processed data handed to
\* create_knowledge_graph has exactly the paths read_system_files returned and
\* for each the cleaned_content is the raw content, unchanged.
C8_DisabledProcessingPassesRaw ==
    (handed.given /\ ~textEnabled) =>
        /\ raw = ReadSystemFiles(fs, cur)
        /\ DOMAIN handed.data = DOMAIN raw
        /\ \A p \in DOMAIN raw : handed.data[p].cleaned_content = raw[p]

\* the builder received, unprocessed, an empty file, an adapter error marker
\* and a whitespace-only file
C8_Witness ==
    /\ handed.given
    /\ ~textEnabled
    /\ \E p \in DOMAIN raw : raw[p] = EmptyText
    /\ \E p \in DOMAIN raw : raw[p] = ErrorMarker
    /\ \E p \in DOMAIN raw : raw[p] = BlankText

\* no file of processed_data has non-blank cleaned_content
NoNonBlankContent(processed_data) ==
    \A p \in DOMAIN processed_data :
        Strip(CleanedContentOf(processed_data[p])) = <<>>

\* C9 as claimed (SpecBuilder): for the AI and the rule-based builder alike,
\* create_knowledge_graph returns False, without raising, whenever
\* processed_data holds no file with non-blank cleaned_content.
C9_NoContentGivesFalse ==
    (build.variant \in {"ai", "rules"} /\ NoNonBlankContent(build.processed_data))
        => (build.success = FALSE /\ ~build.raised)

\* the extraction service returned no graph document, or only graph
\* documents without nodes and relationships
YieldsNothing(resp) ==
    /\ resp.kind = "answers"
    /\ \A i \in 1..Len(resp.docs) : resp.docs[i] = NoDocument

\* C10 as claimed (SpecBuilder): when the extraction service yields nothing,
\* AIGraphBuilder.create_knowledge_graph returns False.
C10_NothingExtractedGivesFalse ==
    (build.variant = "ai" /\ YieldsNothing(build.response)) => build.success = FALSE

\* the extraction call (convert_to_graph_documents) threw in this call
ExtractionThrew(b) == b.response.kind = "raises"

\* the store write (add_graph_documents) was reached and threw in this call
StoreWriteThrew(b) ==
    b.response.kind = "answers" /\ b.response.docs # <<>> /\ ~b.storeOk

\* C11 (SpecBuilder): AIGraphBuilder.create_knowledge_graph never raises to
\* its caller, and when the extraction call or the store write threw an
\* exception it returns False.
C11_NeverRaises ==
    build.variant = "ai" =>
        /\ ~build.raised
        /\ (ExtractionThrew(build) \/ StoreWriteThrew(build)) =>
               build.success = FALSE

\* a call in which the extraction answered with a graph document and the
\* store write then threw
C11_Witness ==
    /\ build.variant = "ai"
    /\ StoreWriteThrew(build)
    /\ build.response.docs = <<SomeDocument>>
    /\ ~build.success

\* C14 (SpecBuilder): close() of AIGraphBuilder, of RuleBasedGraphBuilder and
\* of UniversalDataLoader never raises, however often it is called and in
\* whatever state: before or after create_knowledge_graph, after a failed
\* extraction, and when the connection's own close throws.
C14_CloseNeverRaises == inst.closes >= 1 => ~inst.closeRaised

\* the second close of an AI builder, through UniversalDataLoader.close,
\* after a failed create_knowledge_graph, with the connection's close
\* throwing
C14_Witness ==
    /\ inst.variant = "ai"
    /\ inst.closes = 2
    /\ inst.via = "loader"
    /\ inst.connFailed
    /\ build.variant = "ai"
    /\ ~build.success

\* C13 as claimed (SpecSinkFaulty): a service constructed from missing or unusable
\* connection parameters raises during construction: no AI builder exists
\* whose construction should have failed, and load_systems_and_events is
\* never called on a loader whose neo4j_config was not usable.
C13_MisconfigurationFatalAtConstruction ==
    /\ inst.variant = "ai" => ~AIInitFails(inst.config)
    /\ last.called => neo4jConfig = "usable"

\* at most one node or relationship under every key
AtMostOne(f) == \A k \in DOMAIN f : f[k] <= 1

\* C15 (SpecSink): after any sequence of load_systems_and_events calls the
\* store holds at most one System node per system_id, one Event node per
\* event_id, one Service node per name, one RUNS relationship per (system,
\* service) pair and one HAS_EVENT relationship per (system, event) pair.
C15_MergeOnKeyUniqueness ==
    /\ AtMostOne(store.systems)
    /\ AtMostOne(store.events)
    /\ AtMostOne(store.services)
    /\ AtMostOne(store.runs)
    /\ AtMostOne(store.has_event)

\* after a repeated call, two systems run the one shared Service node and an
\* event hangs on its system
C15_Witness ==
    /\ sink.repeated
    /\ store.systems["s1"] = 1
    /\ store.systems["s2"] = 1
    /\ store.services["httpd"] = 1
    /\ store.runs[<<"s1", "httpd">>] = 1
    /\ store.runs[<<"s2", "httpd">>] = 1
    /\ store.events["e1"] = 1
    /\ store.has_event[<<"s1", "e1">>] = 1

\* C16 as claimed (SpecSinkFaulty): in a load_systems_and_events call that
\* got its session, whatever statement the database rejected, the write of
\* every system, every event and every HAS_EVENT relationship of the input
\* was attempted.
C16_EntityFailuresNotFatal ==
    (last.called /\ sink.returned) =>
        /\ \A i \in 1..Len(last.systems) : <<"system", i>> \in store.attempted
        /\ \A k \in 1..Len(last.events) : <<"event", k>> \in store.attempted
        /\ \A k \in 1..Len(last.events) : <<"rel", k>> \in store.attempted

\* C17 as claimed (SpecSink): with clear_on_startup enabled the loader clears
\* the database at most once, and no call removes what an earlier call on
\* the loader wrote.
C17_ClearedOnStartupOnly ==
    clearOnStartup => (clears <= 1 /\ ~lost)

\* C18 as claimed (SpecSinkFaulty): the database holds a System or an Event node
\* written by load_systems_and_events only if __init__ created the
\* uniqueness constraints.
C18_ConstraintsBeforeLoad ==
    (\E k \in DOMAIN store.systems : store.systems[k] > 0)
    \/ (\E k \in DOMAIN store.events : store.events[k] > 0)
        => constraints

\* how the value of an unreadable file starts: f"Error: {e}"
ErrorMarkerPrefix == <<"E", "r", "r", "o", "r", ":", " ">>

\* read_system_files has answered in the load_system_data in progress or
\* just ended
ReadDone == SystemExists(fs, cur) /\ phase \in {"process", "extract", "done"}

\* C19 (Spec): for an existing system read_system_files does not raise when
\* some files cannot be read (load_system_data goes on to its next phase
\* with no outcome yet): it returns one entry per matched file, the content
\* of each readable file and a value starting with "Error: " for each
\* unreadable one.
C19_PartialReadIsolation ==
    ReadDone =>
        /\ phase = "process" => result = NoOutcome
        /\ DOMAIN raw = DOMAIN fs[cur]
        /\ \A p \in DOMAIN fs[cur] :
              IF fs[cur][p].readable THEN raw[p] = fs[cur][p].content
              ELSE StartsWith(raw[p], ErrorMarkerPrefix)

\* a system with one readable and one unreadable file has been read
C19_Witness ==
    /\ ReadDone
    /\ phase = "process"
    /\ Cardinality(DOMAIN raw) = 2
    /\ \E p \in DOMAIN fs[cur] : ~fs[cur][p].readable
    /\ \E p \in DOMAIN fs[cur] : fs[cur][p].readable /\ raw[p] # <<>>

\* C20 (Spec): on a backing store without systems list_available_systems
\* returns the empty sequence, and load_all_systems returns two empty lists
\* without raising and without invoking the text processor, the graph
\* builder or the graph store, whichever phases are enabled.
C20_EmptySourceGivesEmptyResult ==
    (InBatch /\ fs = FsEmpty) =>
        /\ listing = <<>>
        /\ log = <<>>
        /\ phase \in {"between", "returned"}
        /\ phase = "returned" => batchResult = Returned(<<>>, <<>>)
        /\ processed = EmptyMap
        /\ ~handed.given
        /\ graph = {}

\* load_all_systems has returned on an empty backing store with text
\* processing and extraction enabled
C20_Witness ==
    /\ fs = FsEmpty
    /\ phase = "returned"
    /\ textEnabled
    /\ extractEnabled
    /\ batchResult = Returned(<<>>, <<>>)


\* ''.join(chunks[lo..hi])
RECURSIVE JoinChunks(_, _, _)
JoinChunks(chunks, lo, hi) ==
    IF lo > hi THEN <<>>
    ELSE IF lo = hi THEN chunks[lo]
    ELSE LET mid == (lo + hi) \div 2
         IN JoinChunks(chunks, lo, mid) \o JoinChunks(chunks, mid + 1, hi)

\* the chunks are no longer than the size and joined give the text back
BoundedCover(chunks, text, size) ==
    /\ \A k \in 1..Len(chunks) : Len(chunks[k]) <= size
    /\ JoinChunks(chunks, 1, Len(chunks)) = text

\* C21 (SpecText): without the external splitter and with a positive
\* max_chunk_size, _chunk_text answers for any text with chunks none of which
\* is longer than max_chunk_size and whose concatenation in order is the
\* text; the same holds for the chunks process_files records for a file's
\* cleaned content.
C21_ChunkBoundAndCoverage ==
    (chunking.text_splitter = "none" /\ chunking.max_chunk_size > 0) =>
        /\ call.op = "_chunk_text" =>
              /\ ~call.out.raised
              /\ BoundedCover(call.out.value, call.text, chunking.max_chunk_size)
        /\ call.op = "process_files" =>
              \A p \in DOMAIN call.out :
                  /\ call.out[p].kind = "processed"
                  /\ BoundedCover(call.out[p].chunks,
                                  call.out[p].cleaned_content,
                                  chunking.max_chunk_size)

\* a five-character text cut with size two: two full chunks and a shorter one
C21_Witness ==
    /\ call.op = "_chunk_text"
    /\ chunking.text_splitter = "none"
    /\ chunking.max_chunk_size = 2
    /\ call.text = PackagesText
    /\ ~call.out.raised
    /\ Len(call.out.value) = 3
    /\ Len(call.out.value[3]) = 1


FileTypes ==
    {"log_file", "config_file", "systemd_service", "package_list",
     "release_info", "repository_config", "unknown"}

\* the checks of the classification in their order, on the lower-cased path
TypeChecks(file_path) ==
    LET p == LowerPath(file_path)
    IN << <<PathEndsWith(p, ".log"), "log_file">>,
          <<PathEndsWith(p, ".conf"), "config_file">>,
          <<PathEndsWith(p, ".service"), "systemd_service">>,
          <<PathContains(p, "packages.txt"), "package_list">>,
          <<PathContains(p, "redhat-release"), "release_info">>,
          <<PathEndsWith(p, ".repo"), "repository_config">> >>

CleaningDisabled ==
    /\ ~cleaning.remove_ansi_codes
    /\ ~cleaning.normalize_whitespace
    /\ ~cleaning.remove_debug_logs

\* C23 (SpecText): with remove_ansi_codes, normalize_whitespace and
\* remove_debug_logs all disabled, _clean_text answers with its input
\* unchanged, for every text, also one that begins or ends with whitespace.
C23_DisabledCleaningIsIdentity ==
    (call.op = "_clean_text" /\ CleaningDisabled) => call.out = call.text


\* the entry of raw_files under path p holds the text of a file that was
\* read, and the text is not empty
RealText(p) == fs[cur][p].readable /\ fs[cur][p].content # <<>>

\* C24 (Spec): process_files leaves out an entry exactly when its content is
\* empty or is the error marker the adapter wrote for an unreadable file:
\* every entry that holds the non-empty text of a file has a record in the
\* output, and the output has no path that the input has not.
C24_SkipsExactlyEmptyAndMarkers ==
    (textEnabled /\ phase = "extract") =>
        /\ DOMAIN processed \subseteq DOMAIN raw
        /\ \A p \in DOMAIN raw : p \in DOMAIN processed <=> RealText(p)


\* what the chunking step gives for the file under p of the call's input
ChunkingOf(p) == ChunkText(CleanText(call.raw_files[p], cleaning), chunking)

\* text[:n]
FirstChars(text, n) == SubSeq(text, 1, IF Len(text) < n THEN Len(text) ELSE n)

\* C25 (SpecText): when a step of processing one file raises (here the
\* chunking step: the external splitter fails, or max_chunk_size is zero),
\* process_files still answers with a map that has an entry for every
\* eligible file; the file that failed maps to an error record with the text
\* of the error and the first 1000 characters of its raw content, and every
\* other eligible file has its normal record.
C25_PerFileFailureIsolation ==
    call.op = "process_files" =>
        /\ DOMAIN call.out = Eligible(call.raw_files)
        /\ \A p \in DOMAIN call.out :
              IF ChunkingOf(p).raised
              THEN /\ call.out[p].kind = "error"
                   /\ call.out[p].error = ChunkingOf(p).error
                   /\ call.out[p].error # <<>>
                   /\ call.out[p].raw_content
                        = FirstChars(call.raw_files[p], 1000)
              ELSE /\ call.out[p].kind = "processed"
                   /\ call.out[p].cleaned_content
                        = CleanText(call.raw_files[p], cleaning)
                   /\ call.out[p].chunks = ChunkingOf(p).value

\* the splitter fails on a file of 1001 characters while a file short enough
\* to go without the splitter is processed in the same call
C25_Witness ==
    /\ call.op = "process_files"
    /\ chunking = [max_chunk_size |-> 3, text_splitter |-> "raises"]
    /\ {LogPath, ServicePath} \subseteq DOMAIN call.out
    /\ call.raw_files[LogPath] = LongText
    /\ call.out[LogPath].kind = "error"
    /\ Len(call.out[LogPath].raw_content) = 1000
    /\ call.out[ServicePath].kind = "processed"
    /\ call.out[ServicePath].chunk_count = 1


\* the text of one line once colour codes are removed and whitespace is
\* normalised
LineText(line) == Strip(NormalizeWhitespace(RemoveAnsi(line)))

\* C26 (SpecText): with the three cleaning options enabled, what _clean_text
\* answers for a content of several lines still holds the text of every line
\* without the marker [DEBUG] and holds no line with the marker.
C26_OnlyDebugLinesRemoved ==
    (/\ call.op = "_clean_text"
     /\ cleaning = DefaultCleaning
     /\ Len(SplitLines(call.text)) >= 2) =>
        LET lines == SplitLines(call.text)
        IN /\ \A i \in 1..Len(lines) :
                  ~Contains(lines[i], DebugMarker) =>
                      Contains(call.out, LineText(lines[i]))
           /\ ~Contains(call.out, DebugMarker)


\* C27 (SpecText): for a content no longer than a positive max_chunk_size,
\* the empty content included, _chunk_text answers with exactly one chunk,
\* the content itself, and the record process_files builds for such a
\* cleaned content has chunk_count 1.
C27_SmallContentIsOneChunk ==
    chunking.max_chunk_size > 0 =>
        /\ (call.op = "_chunk_text"
            /\ Len(call.text) <= chunking.max_chunk_size) =>
                /\ ~call.out.raised
                /\ call.out.value = <<call.text>>
        /\ call.op = "process_files" =>
              \A p \in DOMAIN call.out :
                  (/\ call.out[p].kind = "processed"
                   /\ call.out[p].cleaned_size <= chunking.max_chunk_size) =>
                      /\ call.out[p].chunks = <<call.out[p].cleaned_content>>
                      /\ call.out[p].chunk_count = 1

\* the same statement for the contents that are not empty
C27_SmallNonEmptyContentIsOneChunk ==
    chunking.max_chunk_size > 0 =>
        /\ (call.op = "_chunk_text"
            /\ call.text # <<>>
            /\ Len(call.text) <= chunking.max_chunk_size) =>
                /\ ~call.out.raised
                /\ call.out.value = <<call.text>>
        /\ call.op = "process_files" =>
              \A p \in DOMAIN call.out :
                  (/\ call.out[p].kind = "processed"
                   /\ call.out[p].cleaned_content # <<>>
                   /\ call.out[p].cleaned_size <= chunking.max_chunk_size) =>
                      /\ call.out[p].chunks = <<call.out[p].cleaned_content>>
                      /\ call.out[p].chunk_count = 1


\* load_system_data has returned the summary of the system it was called for
SummaryReturned ==
    /\ phase = "done"
    /\ result.kind = "returned"
    /\ result.systems # <<>>

\* C28 (Spec): under the default cleaning configuration, when the
\* package-list file of a system has n non-blank lines, the record
\* process_files builds for the file has n package entries and the summary
\* SystemEntity load_system_data returns has package_count n.
C28_PackageCountIsLineCount ==
    (textEnabled /\ cleaning = DefaultCleaning /\ SummaryReturned) =>
        \A p \in DOMAIN processed :
            processed[p].file_type = "package_list" =>
                LET n == NonBlankLineCount(raw[p])
                IN /\ Len(processed[p].parsed_data.packages) = n
                   /\ processed[p].parsed_data.package_count = n
                   /\ result.systems[1].package_count = n


\* what the store holds of the system listed at position j
PersistedFor(g, j) == {x \in g : x.source = listing[j]}

\* C29 (Spec): when load_all_systems ends because load_system_data raised
\* for the system at position idx of the listing, the store still holds,
\* unchanged, everything that was persisted before that call began, so the
\* contributions of the systems listed before it, while the caller gets the
\* exception and none of the summaries accumulated for them.
C29_AbortKeepsPersistedGraph ==
    phase = "aborted" =>
        /\ batchResult.kind = "raised"
        /\ batchResult.systems = <<>>
        /\ Len(allSystems) = idx - 1
        /\ graphAtCall \subseteq graph
        /\ \A x \in graph \ graphAtCall : x.source = listing[idx]
        /\ \A j \in 1..(idx - 1) :
              PersistedFor(graph, j) = PersistedFor(graphAtCall, j)

\* the batch ends at its second system; the nodes and the relationship
\* extracted for the first are in the store and its summary is dropped
C29_Witness ==
    /\ phase = "aborted"
    /\ idx = 2
    /\ Len(allSystems) = 1
    /\ batchResult.kind = "raised"
    /\ Cardinality(PersistedFor(graph, 1)) = 3


\* C30 (SpecEnv): after any sequence of get_universal_loader and
\* get_unified_loader calls, with or without an environment argument, every
\* loader constructed has an environment attribute equal to the environment
\* of the configuration loader it holds.
C30_EnvironmentConsistent ==
    \A i \in 1..Len(loaders) :
        loaders[i].environment = loaders[i].config_loader.environment

=============================================================================
